---- MODULE Spec2Model ----
(***************************************************************************)
(* Model of the OAuth handshake of ai-customer-agent.  The repository      *)
(* holds two entry points with the same routes: the file of 531 lines      *)
(* (src/unnamed/part_000, called "part_000" below) and the earlier         *)
(* src/server.js ("server.js").  The variable build says which of the two  *)
(* the process runs.                                                       *)
(*                                                                         *)
(* JavaScript values are modelled as records [t, items]:                   *)
(*   undefined  [t |-> "undefined", items |-> <<>>]                        *)
(*   a string   [t |-> "string",    items |-> <<s>>]                       *)
(*   an array   [t |-> "array",     items |-> <<s1, ..., sn>>]             *)
(* Strings are TLA+ strings; a character is a string of length one.        *)
(***************************************************************************)
EXTENDS Integers, Sequences, FiniteSets, Bags, TLC

VARIABLES
  build,       \* "part_000" or "server.js": the entry point the process runs
  secret,      \* SHOPIFY_API_SECRET: a string, or undefined when not configured
  express,     \* major version of express: 4 drops a rejected handler promise,
               \* 5 passes it to the default error handler; the repository
               \* does not say which is installed, so it is "any" until the
               \* first rejection shows it
  alive,       \* FALSE once an unhandled rejection has ended the process
  TOKENS,      \* the Map shop -> access token
  inflight,    \* the bag of handlers suspended at an await
  last,        \* the request the latest step belongs to, and what the step did
  exchanged,   \* shops whose token exchange was answered with success
  nReq,        \* inbound requests so far
  jar,         \* one browser: the shopify_oauth_state cookie it holds
  older,       \*   the cookie it held before that one
  vq,          \* verifyHmac on its own: the query
  vq2,         \*   a rearrangement of the query
  vres,        \*   the result for vq ("none" before the call)
  vres2        \*   the result for vq2

\* ------------------------------------------------------------------------
\* Bounds of the model
\* ------------------------------------------------------------------------

\* Bytes of the modelled digest (SHA-256 has 32; the comparison logic does
\* not depend on the number).
DigestBytes == 1

\* Requests whose handler is suspended at an await at the same time.
MaxInflight == 2

\* Requests of one behaviour whose handler reaches an await (a request
\* answered at once is not counted).
MaxReq == 2

\* ------------------------------------------------------------------------
\* JavaScript values
\* ------------------------------------------------------------------------

Undefined == [t |-> "undefined", items |-> <<>>]

Str(s) == [t |-> "string", items |-> <<s>>]

Arr(ss) == [t |-> "array", items |-> ss]

\* !v : undefined and the empty string are falsy, every array is truthy.
Falsy(v) == \/ v.t = "undefined"
            \/ (v.t = "string" /\ v.items[1] = "")

\* Array.prototype.join
RECURSIVE Join(_, _)
Join(ss, sep) ==
  IF Len(ss) = 0 THEN ""
  ELSE IF Len(ss) = 1 THEN ss[1]
  ELSE ss[1] \o sep \o Join(Tail(ss), sep)

\* String(v) and `${v}`
JsString(v) ==
  IF v.t = "undefined" THEN "undefined"
  ELSE IF v.t = "string" THEN v.items[1]
  ELSE Join(v.items, ",")

\* ------------------------------------------------------------------------
\* Characters
\* ------------------------------------------------------------------------

\* The characters the model uses, in ascending code-unit order.
Ascii == " &,-./0123456789=ABCDEFGHIJKLMNOPQRSTUVWXYZ_abcdefghijklmnopqrstuvwxyz"

Chars == {SubSeq(Ascii, i, i) : i \in 1..Len(Ascii)}

\* The code unit of a character.
CharCode ==
  [c \in Chars |->
     LET i == CHOOSE j \in 1..Len(Ascii) : SubSeq(Ascii, j, j) = c
     IN  CASE i = 1 -> 32
           [] i = 2 -> 38
           [] i \in 3..6 -> i + 41
           [] i \in 7..16 -> i + 41
           [] i = 17 -> 61
           [] i \in 18..43 -> i + 47
           [] i = 44 -> 95
           [] OTHER -> i + 52]

At(s, i) == SubSeq(s, i, i)

\* a < b as Array.prototype.sort() compares strings (by code units).
LexLess(a, b) ==
  \E i \in 1..(Len(b)) :
     /\ i <= Len(a) + 1
     /\ \A j \in 1..(i - 1) : At(a, j) = At(b, j)
     /\ \/ i = Len(a) + 1
        \/ CharCode[At(a, i)] < CharCode[At(b, i)]

\* Insert key k into the sorted sequence ks.
RECURSIVE Insert(_, _)
Insert(k, ks) ==
  IF Len(ks) = 0 THEN <<k>>
  ELSE IF LexLess(ks[1], k) THEN <<ks[1]>> \o Insert(k, Tail(ks))
  ELSE <<k>> \o ks

\* Array.prototype.sort() on a sequence of strings.
RECURSIVE Sort(_)
Sort(ks) == IF Len(ks) = 0 THEN <<>> ELSE Insert(ks[1], Sort(Tail(ks)))

\* ------------------------------------------------------------------------
\* Query objects: a sequence of [k, v] pairs with distinct keys, in the
\* order the parameters arrived (the key order of req.query).
\* ------------------------------------------------------------------------

Keys(q) == [i \in 1..Len(q) |-> q[i].k]

Has(q, key) == \E i \in 1..Len(q) : q[i].k = key

Get(q, key) ==
  IF Has(q, key) THEN q[CHOOSE i \in 1..Len(q) : q[i].k = key].v ELSE Undefined

\* const { a, b, ...rest } = q
RECURSIVE Rest(_, _)
Rest(q, drop) ==
  IF Len(q) = 0 THEN <<>>
  ELSE IF q[1].k \in drop THEN Rest(Tail(q), drop)
  ELSE <<q[1]>> \o Rest(Tail(q), drop)

\* ------------------------------------------------------------------------
\* crypto and Buffer
\* ------------------------------------------------------------------------

HexDigits == "0123456789abcdef"

\* Value of one hex character, either case; -1 when it is none.
HexVal(c) ==
  IF \E i \in 1..16 : At(HexDigits, i) = c
    THEN (CHOOSE i \in 1..16 : At(HexDigits, i) = c) - 1
  ELSE IF \E i \in 11..16 : At("0123456789ABCDEF", i) = c
    THEN (CHOOSE i \in 11..16 : At("0123456789ABCDEF", i) = c) - 1
  ELSE -1

\* Buffer.prototype.toString("hex") / digest("hex"): two lower-case digits a byte.
RECURSIVE HexEncode(_)
HexEncode(bytes) ==
  IF Len(bytes) = 0 THEN ""
  ELSE At(HexDigits, (bytes[1] \div 16) + 1) \o At(HexDigits, (bytes[1] % 16) + 1)
       \o HexEncode(Tail(bytes))

\* Buffer.from(s, "hex"): decodes pair by pair and stops at the first pair
\* holding a character that is no hex digit; a trailing single digit is dropped.
RECURSIVE HexDecode(_)
HexDecode(s) ==
  IF Len(s) < 2 THEN <<>>
  ELSE IF HexVal(At(s, 1)) < 0 \/ HexVal(At(s, 2)) < 0 THEN <<>>
  ELSE <<HexVal(At(s, 1)) * 16 + HexVal(At(s, 2))>> \o HexDecode(SubSeq(s, 3, Len(s)))

\* Buffer.from(s, "utf8") for the characters of the model: one byte a character.
Utf8(s) == [i \in 1..Len(s) |-> CharCode[At(s, i)]]

\* One step of the keyed hash standing for HMAC-SHA256.
RECURSIVE Fold(_, _)
Fold(s, h) ==
  IF Len(s) = 0 THEN h
  ELSE Fold(Tail(s), (h * 31 + CharCode[Head(s)]) % 256)

\* Bytes n..DigestBytes of the digest.
RECURSIVE DigestFrom(_, _, _)
DigestFrom(key, message, n) ==
  IF n > DigestBytes THEN <<>>
  ELSE <<Fold(message, Fold(key, n))>> \o DigestFrom(key, message, n + 1)

\* crypto.createHmac("sha256", key).update(message).digest(): DigestBytes bytes.
HmacDigest(key, message) == DigestFrom(key, message, 1)

\* crypto.timingSafeEqual(a, b): a RangeError when the byte lengths differ.
timingSafeEqual(a, b) ==
  IF Len(a) # Len(b) THEN "RangeError"
  ELSE IF a = b THEN "true" ELSE "false"

\* ------------------------------------------------------------------------
\* verifyHmac
\* ------------------------------------------------------------------------

\* The parameters left out of the signed message.
Excluded(bld) == IF bld = "part_000" THEN {"hmac", "signature"} ELSE {"hmac"}

\* key=value of one parameter; an array value is joined with commas.
Pair(q, key) ==
  LET val == Get(q, key)
  IN  IF val.t = "array" THEN key \o "=" \o Join(val.items, ",")
      ELSE key \o "=" \o JsString(val)

\* Object.keys(rest).sort().map(...).join("&")
Message(q, bld) ==
  LET rest   == Rest(q, Excluded(bld))
      sorted == Sort(Keys(rest))
  IN  Join([i \in 1..Len(sorted) |-> Pair(rest, sorted[i])], "&")

\* digest("hex") of the message under the configured secret.
Generated(q, sec, bld) == HexEncode(HmacDigest(JsString(sec), Message(q, bld)))

\* verifyHmac of part_000: "true", "false", or the name of the error thrown.
verifyHmacNew(q, sec) ==
  LET hmac == Get(q, "hmac")
  IN  IF Falsy(hmac) THEN "false"
      ELSE IF sec.t = "undefined" THEN "TypeError"
      ELSE LET a == HexDecode(Generated(q, sec, "part_000"))
               b == HexDecode(JsString(hmac))
           IN  IF Len(a) # Len(b) THEN "false" ELSE timingSafeEqual(a, b)

\* Number(s) & 255 for an element of an array handed to Buffer.from: the
\* decimal value of a text of digits, 0 for any other text.
RECURSIVE Decimal(_, _)
Decimal(s, n) ==
  IF Len(s) = 0 THEN n
  ELSE Decimal(Tail(s), (n * 10 + HexVal(Head(s))) % 256)

ArrayByte(s) ==
  IF \A i \in 1..Len(s) : HexVal(At(s, i)) \in 0..9 THEN Decimal(s, 0) ELSE 0

\* verifyHmac of server.js: no guard on hmac, buffers compared as text.
verifyHmacOld(q, sec) ==
  LET hmac == Get(q, "hmac")
  IN  IF sec.t = "undefined" THEN "TypeError"
      ELSE IF hmac.t = "undefined" THEN "TypeError"
      ELSE IF hmac.t = "array"
        THEN timingSafeEqual(Utf8(Generated(q, sec, "server.js")),
                             [i \in 1..Len(hmac.items) |-> ArrayByte(hmac.items[i])])
      ELSE timingSafeEqual(Utf8(Generated(q, sec, "server.js")),
                           Utf8(JsString(hmac)))

verifyHmac(q, sec, bld) ==
  IF bld = "part_000" THEN verifyHmacNew(q, sec) ELSE verifyHmacOld(q, sec)

\* ------------------------------------------------------------------------
\* Helpers of the routes
\* ------------------------------------------------------------------------

\* String.prototype.trim, for the space character.
RECURSIVE Trim(_)
Trim(s) ==
  IF Len(s) = 0 THEN s
  ELSE IF Head(s) = " " THEN Trim(Tail(s))
  ELSE IF At(s, Len(s)) = " " THEN Trim(SubSeq(s, 1, Len(s) - 1))
  ELSE s

\* [a-zA-Z0-9]
Alnum == Chars \ {" ", "&", ",", "-", ".", "/", "=", "_"}

IsAlnum(c) == c \in Alnum

ShopSuffix == ".myshopify.com"

\* /^[a-zA-Z0-9][a-zA-Z0-9\-]*\.myshopify\.com$/.test(shop), shop a string
isValidShop(shop) ==
  LET n == Len(shop) - Len(ShopSuffix)
  IN  /\ n >= 1
      /\ SubSeq(shop, n + 1, Len(shop)) = ShopSuffix
      /\ IsAlnum(At(shop, 1))
      /\ \A i \in 2..n : IsAlnum(At(shop, i)) \/ At(shop, i) = "-"

\* (req.query.shop || "").toString().trim()
ShopParam(q) ==
  IF Falsy(Get(q, "shop")) THEN "" ELSE Trim(JsString(Get(q, "shop")))

\* The shop a route works with: part_000 trims it in /auth and /customers,
\* server.js takes req.query.shop as it is ("" stands for a falsy value).
RouteShop(q, bld) ==
  IF bld = "part_000" THEN ShopParam(q)
  ELSE IF Falsy(Get(q, "shop")) THEN "" ELSE JsString(Get(q, "shop"))

\* buildInstallUrl: the authorize endpoint of the shop (the query string of
\* the URL carries client_id, scope, redirect_uri and state).
buildInstallUrl(shop) == "https://" \o shop \o "/admin/oauth/authorize"

\* The Map TOKENS: a function from the keys it holds to their values.
EmptyMap == [k \in {} |-> Undefined]

MapGet(m, k) == IF k \in DOMAIN m THEN m[k] ELSE Undefined

\* A set that keeps the value a key already has.
MapSetIfAbsent(m, k, v) ==
  [x \in (DOMAIN m) \cup {k} |-> IF x \in DOMAIN m THEN m[x] ELSE v]

MapSet(m, k, v) == [x \in (DOMAIN m) \cup {k} |-> IF x = k THEN v ELSE m[x]]

\* ------------------------------------------------------------------------
\* State
\* ------------------------------------------------------------------------

serverVars == <<express, alive, TOKENS, inflight, last, exchanged, nReq>>

verifyVars == <<vq, vq2, vres, vres2>>

clientVars == <<jar, older>>

vars == <<build, secret, serverVars, clientVars, verifyVars>>

\* The secret the platform signs with.
SharedSecret == "shhh"

Secrets == {Str(SharedSecret), Undefined}

Builds == {"part_000", "server.js"}

\* crypto.randomBytes(16).toString("hex"), for tokens of one byte
StateTokens == {"a1", "b2"}

\* tokenJson.access_token
AccessTokens == {Str("tok1"), Str("tok2"), Undefined}

\* The routes that read the customers of a shop.
ResourceRoutes == {"/customers", "/customers.csv"}

\* Status codes of the platform's responses.
UpstreamStatus == {200, 401}

\* response.ok
Ok(status) == status \in 200..299

NoOut == [kind |-> "none", host |-> "", cred |-> Undefined]

\* What a step did for its request: whether it received the request or resumed
\* its handler, the request (route, query, cookie), the shop it works with, the
\* response (status 0: none yet), the cookie set, the redirect target, the
\* outbound request issued; for the step that calls TOKENS.set, the
\* access_token it stored (token) and the value the key had (before); for a
\* step that resumes a handler, the await it resumes from (pc) and the status
\* of the upstream response the handler holds (upstream, 0 when none).
NoRequest ==
  [received |-> FALSE,
   route |-> "none", query |-> <<>>, cookie |-> Undefined, shop |-> "",
   put |-> FALSE, token |-> Undefined, before |-> Undefined,
   pc |-> "", upstream |-> 0,
   status |-> 0, body |-> "", setCookie |-> Undefined, location |-> "",
   out |-> NoOut]

\* A request in the step that receives it.
Received(route, q, cookie) ==
  [NoRequest EXCEPT !.received = TRUE, !.route = route, !.query = q,
                    !.cookie = cookie, !.body = "pending"]

\* The request of the suspended handler r in the step that resumes it.
Resumed(r) ==
  [NoRequest EXCEPT !.route = r.route, !.shop = r.shop, !.body = "pending",
                    !.pc = r.pc, !.upstream = r.status]

Answer(req, status, body) == [req EXCEPT !.status = status, !.body = body]

\* A handler suspended at an await: pc is "fetch" (await fetch(...)) or
\* "json" (await response.json()), status the status of the response.
Awaiting(pc, route, shop, status) ==
  [pc |-> pc, route |-> route, shop |-> shop, status |-> status]

Suspended == BagToSet(inflight)

ServerInit ==
  /\ express = "any"
  /\ alive = TRUE
  /\ TOKENS = EmptyMap
  /\ inflight = EmptyBag
  /\ last = NoRequest
  /\ exchanged = {}
  /\ nReq = 0

\* No call of verifyHmac yet.
NoVerdict == [verdict |-> "none", message |-> ""]

VerifyIdle == vq = <<>> /\ vq2 = <<>> /\ vres = NoVerdict /\ vres2 = NoVerdict

\* The browser before its first request.
ClientInit == jar = Undefined /\ older = Undefined

Init ==
  /\ build \in Builds
  /\ secret \in Secrets
  /\ ServerInit
  /\ ClientInit
  /\ VerifyIdle

\* A request of any client but the browser, and every resumption.
Anyone == UNCHANGED clientVars

\* What no step of the server changes.
Fixed == UNCHANGED <<build, secret, verifyVars>>

\* ------------------------------------------------------------------------
\* A handler's promise rejects and nothing catches it
\* ------------------------------------------------------------------------

\* express 5 answers 500 from its error handler.  express 4 leaves the
\* rejection unhandled: node ends the process, the request is never answered,
\* and the Map and the suspended handlers (rest) are lost with the process.
Unhandled(req, rest) ==
  \E major \in {"4", "5"} :
    /\ express \in {"any", major}
    /\ express' = major
    /\ inflight' = rest
    /\ IF major = "5"
         THEN /\ last' = Answer(req, 500, "express error handler")
              /\ UNCHANGED <<alive, TOKENS>>
         ELSE /\ last' = Answer(req, 0, "process exit")
              /\ alive' = FALSE
              /\ TOKENS' = EmptyMap

\* The handler suspends at await fetch(...), having sent the request out.
Suspend(req, route, shop, out) ==
  /\ BagCardinality(inflight) < MaxInflight
  /\ nReq < MaxReq
  /\ nReq' = nReq + 1
  /\ inflight' = inflight (+) SetToBag({Awaiting("fetch", route, shop, 0)})
  /\ last' = [req EXCEPT !.shop = shop, !.out = out]
  /\ UNCHANGED <<express, alive, TOKENS>>

\* The handler answers in the step that received the request.
Reject(req, status, body) ==
  /\ last' = Answer(req, status, body)
  /\ UNCHANGED <<express, alive, TOKENS, inflight, nReq>>

\* ------------------------------------------------------------------------
\* Inputs
\* ------------------------------------------------------------------------

TenantA == "a.myshopify.com"

Foreign == "evil.com"

\* shop parameters sent to /auth
AuthShops ==
  {Undefined, Str(""), Str(TenantA), Str(" " \o TenantA), Str("b-1.myshopify.com"),
   Str(Foreign), Str("-" \o TenantA), Str(".myshopify.com"),
   Str(TenantA \o "." \o Foreign)}

\* shop parameters sent to the other routes
Shops == {Undefined, Str(TenantA), Str(Foreign)}

Codes == {Undefined, Str("c1")}

States == {Undefined} \cup {Str(t) : t \in StateTokens}

Cookies == {Undefined, Str("")} \cup {Str(t) : t \in StateTokens}

Param(key, v) == IF v.t = "undefined" THEN <<>> ELSE <<[k |-> key, v |-> v]>>

\* The digest the platform computes for a query, in hex.
Signed(q) == HexEncode(HmacDigest(SharedSecret, Message(q, "part_000")))

\* A digest other than the platform's.
Forged(q) ==
  HexEncode([n \in 1..DigestBytes |->
               (HmacDigest(SharedSecret, Message(q, "part_000"))[n] + 1) % 256])

\* hmac parameters a callback may carry for the query q
CallbackHmacs(q) == {Undefined, Str(Signed(q)), Str(Forged(q))}

CallbackQuery(shopV, codeV, stateV) ==
  Param("shop", shopV) \o Param("code", codeV) \o Param("state", stateV)

\* Callbacks for TenantA holding shop, code and state: every state token with
\* every cookie and every hmac.
TenantCallbacks ==
  UNION {{<<CallbackQuery(Str(TenantA), Str("c1"), stateV) \o Param("hmac", h), cookie>> :
            h \in CallbackHmacs(CallbackQuery(Str(TenantA), Str("c1"), stateV)),
            cookie \in Cookies} :
         stateV \in States \ {Undefined}}

\* Callbacks the platform signed for another host, with the cookie of their state.
ForeignCallbacks ==
  {<<CallbackQuery(Str(Foreign), Str("c1"), stateV)
       \o Param("hmac", Str(Signed(CallbackQuery(Str(Foreign), Str("c1"), stateV)))),
     stateV>> : stateV \in States \ {Undefined}}

\* Callbacks lacking shop, code or state, signed and with a matching cookie.
IncompleteCallbacks ==
  {<<q \o Param("hmac", Str(Signed(q))), Str("a1")>> :
     q \in {CallbackQuery(Undefined, Str("c1"), Str("a1")),
            CallbackQuery(Str(TenantA), Undefined, Str("a1")),
            CallbackQuery(Str(TenantA), Str("c1"), Undefined),
            CallbackQuery(Undefined, Undefined, Undefined)}}

\* The callback requests: <<query, cookie>>.
CallbackInputs == TenantCallbacks \cup ForeignCallbacks \cup IncompleteCallbacks

\* verifyHmac(req.query) for one callback request, under each build and secret.
Verdicts(q) ==
  [new |-> [set |-> verifyHmac(q, Str(SharedSecret), "part_000"),
            unset |-> verifyHmac(q, Undefined, "part_000")],
   old |-> [set |-> verifyHmac(q, Str(SharedSecret), "server.js"),
            unset |-> verifyHmac(q, Undefined, "server.js")]]

\* The table of Verdicts over the callback requests.
Verified == [in \in CallbackInputs |-> Verdicts(in[1])]

\* verifyHmac(req.query) taken to pass whatever the query holds.
VerifyResultSkipped(q, cookie) == "true"

\* The result of verifyHmac(req.query) in the running process.
VerifyResult(q, cookie) ==
  LET row == IF build = "part_000" THEN Verified[<<q, cookie>>].new
             ELSE Verified[<<q, cookie>>].old
  IN  IF secret.t = "undefined" THEN row.unset ELSE row.set

\* The shop /auth works with and the verdict of isValidShop on it.
AuthVerdicts(shopV) ==
  [new |-> [shop |-> RouteShop(Param("shop", shopV), "part_000"),
            valid |-> isValidShop(RouteShop(Param("shop", shopV), "part_000"))],
   old |-> [shop |-> RouteShop(Param("shop", shopV), "server.js"),
            valid |-> TRUE]]

AuthShop == [shopV \in AuthShops |-> AuthVerdicts(shopV)]

\* ------------------------------------------------------------------------
\* GET /auth
\* ------------------------------------------------------------------------

Auth(shopV, st) ==
  LET q    == Param("shop", shopV)
      row  == IF build = "part_000" THEN AuthShop[shopV].new ELSE AuthShop[shopV].old
      shop == row.shop
      req  == Received("/auth", q, Undefined)
  IN  /\ alive
      /\ Fixed
      /\ UNCHANGED exchanged
      /\ IF shop = "" THEN Reject(req, 400, "Missing shop param")
         ELSE IF ~row.valid THEN Reject(req, 400, "Invalid shop domain")
         ELSE Reject([req EXCEPT !.shop = shop, !.setCookie = Str(st),
                                 !.location = buildInstallUrl(shop)],
                     302, "redirect")

\* ------------------------------------------------------------------------
\* GET /auth/callback
\* ------------------------------------------------------------------------

\* !cookieState alone, which lets any cookie through whatever the state is.
StateRejectedNoCookie(cookieState, state) == Falsy(cookieState)

\* !cookieState || cookieState !== state
StateRejected(cookieState, state) == Falsy(cookieState) \/ cookieState # state

\* The handler up to its first await.
Callback(q, cookie) ==
  LET shop  == Get(q, "shop")
      code  == Get(q, "code")
      state == Get(q, "state")
      req   == Received("/auth/callback", q, cookie)
      v     == VerifyResult(q, cookie)
  IN  /\ alive
      /\ Fixed
      /\ UNCHANGED exchanged
      /\ IF Falsy(shop) \/ Falsy(code) \/ Falsy(state)
           THEN Reject(req, 400, "Missing shop/code/state")
         ELSE IF StateRejected(cookie, state)
           THEN Reject(req, 400, "Invalid state")
         ELSE IF v = "false"
           THEN Reject(req, 400, "HMAC verification failed")
         ELSE IF v = "true"
           THEN Suspend(req, "/auth/callback", JsString(shop),
                        [kind |-> "token", host |-> JsString(shop), cred |-> secret])
         ELSE Unhandled(req, inflight) /\ UNCHANGED nReq

\* ------------------------------------------------------------------------
\* GET /customers and GET /customers.csv
\* ------------------------------------------------------------------------

\* The handler without the lookup: the request goes out with whatever
\* TOKENS.get returned.
CustomersNoLookup(route, shopV) ==
  LET q     == Param("shop", shopV)
      shop  == RouteShop(q, build)
      req   == Received(route, q, Undefined)
  IN  /\ alive
      /\ Fixed
      /\ UNCHANGED exchanged
      /\ IF shop = "" THEN Reject(req, 400, "Missing shop param")
         ELSE Suspend(req, route, shop,
                      [kind |-> "customers", host |-> shop,
                       cred |-> MapGet(TOKENS, shop)])

Customers(route, shopV) ==
  LET q     == Param("shop", shopV)
      shop  == RouteShop(q, build)
      token == MapGet(TOKENS, shop)
      req   == Received(route, q, Undefined)
  IN  /\ alive
      /\ Fixed
      /\ UNCHANGED exchanged
      /\ IF route = "/customers.csv" /\ build = "server.js"
           THEN Reject(req, 404, "Cannot GET")
         ELSE IF shop = "" THEN Reject(req, 400, "Missing shop param")
         ELSE IF Falsy(token) THEN Reject(req, 401, "No token found")
         ELSE Suspend(req, route, shop,
                      [kind |-> "customers", host |-> shop, cred |-> token])

\* ------------------------------------------------------------------------
\* GET /, /app, /health and /exitiframe
\* ------------------------------------------------------------------------

\* The routes that serve a page or the status of the process.
StaticRoutes == {"/", "/app", "/health", "/exitiframe"}

\* server.js has "/" alone; /health reads TOKENS.size and writes nothing;
\* /exitiframe wants a shop.
Static(route, shopV) ==
  LET q   == Param("shop", shopV)
      req == Received(route, q, Undefined)
  IN  /\ alive
      /\ Fixed
      /\ UNCHANGED exchanged
      /\ IF build = "server.js" /\ route # "/" THEN Reject(req, 404, "Cannot GET")
         ELSE IF route = "/exitiframe" /\ RouteShop(q, build) = ""
           THEN Reject(req, 400, "Missing shop")
         ELSE Reject(req, 200, "page")

\* ------------------------------------------------------------------------
\* Resumption of a suspended handler
\* ------------------------------------------------------------------------

Release(r) == inflight (-) SetToBag({r})

\* The handler r answers and ends.
Respond(r, status, body) ==
  /\ last' = Answer(Resumed(r), status, body)
  /\ inflight' = Release(r)
  /\ UNCHANGED <<express, alive, TOKENS>>

\* catch (err) of the callback of part_000
Caught(r) == build = "part_000" /\ r.route = "/auth/callback"

\* await fetch(...) settles with a response of the given status.
FetchResolves(r, status) ==
  /\ alive /\ BagIn(r, inflight) /\ r.pc = "fetch"
  /\ Fixed
  /\ inflight' = Release(r) (+) SetToBag({Awaiting("json", r.route, r.shop, status)})
  /\ last' = [Resumed(r) EXCEPT !.upstream = status]
  /\ UNCHANGED <<express, alive, TOKENS, exchanged, nReq>>

\* await fetch(...) rejects and the handler sends the request once more.
FetchRejectsRetry(r) ==
  /\ alive /\ BagIn(r, inflight) /\ r.pc = "fetch"
  /\ Fixed
  /\ last' = [Resumed(r) EXCEPT !.out = [kind |-> "retry", host |-> r.shop,
                                         cred |-> Undefined]]
  /\ UNCHANGED <<express, alive, TOKENS, inflight, exchanged, nReq>>

\* await fetch(...) rejects: the network failed.
FetchRejects(r) ==
  /\ alive /\ BagIn(r, inflight) /\ r.pc = "fetch"
  /\ Fixed
  /\ IF Caught(r) THEN Respond(r, 500, "Callback error")
     ELSE Unhandled(Resumed(r), Release(r))
  /\ UNCHANGED <<exchanged, nReq>>

\* The callback after both awaits, storing the token before it looks at
\* tokenRes.ok.
ExchangedUnchecked(r, accessToken) ==
  /\ TOKENS' = MapSet(TOKENS, r.shop, accessToken)
  /\ exchanged' = IF Ok(r.status) THEN exchanged \cup {r.shop} ELSE exchanged
  /\ inflight' = Release(r)
  /\ last' = IF ~Ok(r.status) THEN Answer(Resumed(r), 500, "Token exchange failed")
             ELSE Answer(Resumed(r), 302, "redirect")
  /\ UNCHANGED <<express, alive>>

\* The callback after both awaits, answering the success without the
\* TOKENS.set.
ExchangedNotStored(r, accessToken) ==
  IF ~Ok(r.status)
    THEN /\ Respond(r, 500, "Token exchange failed")
         /\ UNCHANGED exchanged
  ELSE /\ Respond(r, 302, "redirect")
       /\ exchanged' = exchanged \cup {r.shop}

\* The callback after both awaits.
Exchanged(r, accessToken) ==
  IF ~Ok(r.status)
    THEN /\ Respond(r, 500, "Token exchange failed")
         /\ UNCHANGED exchanged
  ELSE /\ TOKENS' = MapSet(TOKENS, r.shop, accessToken)
       /\ exchanged' = exchanged \cup {r.shop}
       /\ inflight' = Release(r)
       /\ last' = [(IF build = "part_000"
                      THEN [Answer(Resumed(r), 302, "redirect")
                              EXCEPT !.location = "/?shop=" \o r.shop]
                      ELSE Answer(Resumed(r), 200, "Installed"))
                    EXCEPT !.put = TRUE, !.token = accessToken,
                           !.before = MapGet(TOKENS, r.shop)]
       /\ UNCHANGED <<express, alive>>

\* /customers and /customers.csv after both awaits.
Listed(r) ==
  /\ UNCHANGED exchanged
  /\ IF build = "part_000"
       THEN IF ~Ok(r.status) THEN Respond(r, r.status, "Shopify API error")
            ELSE Respond(r, 200, "customers")
     ELSE Respond(r, r.status, "data")

\* await response.json() resolves; accessToken is the access_token of a token
\* response.
JsonResolves(r, accessToken) ==
  /\ alive /\ BagIn(r, inflight) /\ r.pc = "json"
  /\ Fixed
  /\ IF r.route = "/auth/callback" THEN Exchanged(r, accessToken) ELSE Listed(r)
  /\ UNCHANGED nReq

\* await response.json() rejects: the body is no JSON.  part_000 reads the
\* body of a resource response with .catch(() => ({})).
JsonRejects(r) ==
  /\ alive /\ BagIn(r, inflight) /\ r.pc = "json"
  /\ Fixed
  /\ IF Caught(r) THEN Respond(r, 500, "Callback error") /\ UNCHANGED exchanged
     ELSE IF build = "part_000" THEN Listed(r)
     ELSE Unhandled(Resumed(r), Release(r)) /\ UNCHANGED exchanged
  /\ UNCHANGED nReq

\* ------------------------------------------------------------------------
\* The server
\* ------------------------------------------------------------------------

Next ==
  \/ \E shopV \in AuthShops, st \in StateTokens : Auth(shopV, st) /\ Anyone
  \/ \E in \in CallbackInputs : Callback(in[1], in[2]) /\ Anyone
  \/ \E route \in ResourceRoutes, shopV \in Shops :
       Customers(route, shopV) /\ Anyone
  \/ \E route \in StaticRoutes, shopV \in Shops : Static(route, shopV) /\ Anyone
  \/ \E r \in Suspended, status \in UpstreamStatus :
       FetchResolves(r, status) /\ Anyone
  \/ \E r \in Suspended : FetchRejects(r) /\ Anyone
  \/ \E r \in Suspended, tok \in AccessTokens : JsonResolves(r, tok) /\ Anyone
  \/ \E r \in Suspended : JsonRejects(r) /\ Anyone

Spec == Init /\ [][Next]_vars

\* ------------------------------------------------------------------------
\* One browser and its cookie jar
\* ------------------------------------------------------------------------

\* The browser asks for /auth and keeps the cookie of the answer, in place
\* of the one it held.
BrowserAuth(shopV, st) ==
  /\ Auth(shopV, st)
  /\ jar' = IF last'.setCookie = Undefined THEN jar ELSE last'.setCookie
  /\ older' = IF last'.setCookie = Undefined THEN older ELSE jar

\* The browser follows a redirect to /auth/callback: it sends the cookie it
\* holds.
BrowserCallback(q) ==
  /\ Callback(q, jar)
  /\ UNCHANGED clientVars

NextJar ==
  \/ \E shopV \in AuthShops, st \in StateTokens : BrowserAuth(shopV, st)
  \/ \E in \in CallbackInputs : in[2] = jar /\ BrowserCallback(in[1])
  \/ \E r \in Suspended, status \in UpstreamStatus :
       FetchResolves(r, status) /\ Anyone
  \/ \E r \in Suspended : FetchRejects(r) /\ Anyone
  \/ \E r \in Suspended, tok \in AccessTokens : JsonResolves(r, tok) /\ Anyone
  \/ \E r \in Suspended : JsonRejects(r) /\ Anyone

SpecJar == Init /\ [][NextJar]_vars

\* ------------------------------------------------------------------------
\* The resource routes over a given Credential Map
\* ------------------------------------------------------------------------

\* What TOKENS holds after no install, or after one install of TenantA.
StoredMaps == {EmptyMap} \cup {MapSet(EmptyMap, TenantA, t) : t \in AccessTokens}

ResourceInit ==
  /\ build \in Builds
  /\ secret = Str(SharedSecret)
  /\ express = "any"
  /\ alive = TRUE
  /\ TOKENS \in StoredMaps
  /\ exchanged = DOMAIN TOKENS
  /\ inflight = EmptyBag
  /\ last = NoRequest
  /\ nReq = 0
  /\ ClientInit
  /\ VerifyIdle

NextResource ==
  \/ \E route \in ResourceRoutes, shopV \in Shops :
       Customers(route, shopV) /\ Anyone
  \/ \E r \in Suspended, status \in UpstreamStatus :
       FetchResolves(r, status) /\ Anyone
  \/ \E r \in Suspended : FetchRejects(r) /\ Anyone
  \/ \E r \in Suspended, tok \in AccessTokens : JsonResolves(r, tok) /\ Anyone
  \/ \E r \in Suspended : JsonRejects(r) /\ Anyone

SpecResource == ResourceInit /\ [][NextResource]_vars

\* ------------------------------------------------------------------------
\* verifyHmac on its own
\* ------------------------------------------------------------------------

\* The hex text s in upper case.
RECURSIVE Upper(_)
Upper(s) ==
  IF Len(s) = 0 THEN ""
  ELSE LET c == SubSeq(s, 1, 1)
           u == CASE c = "a" -> "A" [] c = "b" -> "B" [] c = "c" -> "C"
                  [] c = "d" -> "D" [] c = "e" -> "E" [] c = "f" -> "F"
                  [] OTHER -> c
       IN  u \o Upper(Tail(s))

\* Query objects without hmac: keys out of order, an array value, a
\* signature parameter, no parameter at all.
VerifyBases ==
  {<<[k |-> "shop", v |-> Str(TenantA)], [k |-> "code", v |-> Str("c1")]>>,
   <<[k |-> "code", v |-> Str("c1")], [k |-> "shop", v |-> Str(TenantA)]>>,
   <<[k |-> "shop", v |-> Str(TenantA)], [k |-> "ids", v |-> Arr(<<"1", "2">>)]>>,
   <<[k |-> "signature", v |-> Str("s1")], [k |-> "code", v |-> Str("c1")]>>,
   <<>>}

\* hmac parameters for the query q: absent, empty, the platform's digest, the
\* digest in upper case, followed by non-hex text, by one digit, by a byte,
\* cut by one digit, non-hex text, another digest, the digest given twice.
VerifyHmacs(q) ==
  LET d == Signed(q)
  IN  {Undefined, Str(""), Str(d), Str(Upper(d)), Str(d \o "zz"), Str(d \o "0"),
       Str(d \o "00"), Str(SubSeq(d, 1, Len(d) - 1)), Str("zz"), Str(Forged(q)),
       Arr(<<d, d>>)}

VerifyQueries == UNION {{q \o Param("hmac", h) : h \in VerifyHmacs(q)} : q \in VerifyBases}

\* The outcome of verifyHmac(q) and the message it signed.
Verdict(q) == [verdict |-> verifyHmac(q, secret, build), message |-> Message(q, build)]

\* The query objects with the parameters of q in another order.
Reorderings(q) ==
  {[i \in 1..Len(q) |-> q[f[i]]] : f \in Permutations(1..Len(q))}

\* q with its signature parameter removed (sig undefined) or set to sig.
WithSignature(q, sig) == Rest(q, {"signature"}) \o Param("signature", sig)

Signatures == {Undefined, Str("s1"), Str("s2")}

VerifyInit ==
  /\ build \in Builds
  /\ secret \in Secrets
  /\ ServerInit
  /\ ClientInit
  /\ vq \in VerifyQueries
  /\ vq2 = <<>>
  /\ vres = NoVerdict
  /\ vres2 = NoVerdict

\* verifyHmac(vq)
Verify ==
  /\ vres = NoVerdict
  /\ vres' = Verdict(vq)
  /\ UNCHANGED <<build, secret, serverVars, clientVars, vq, vq2, vres2>>

\* verifyHmac of vq with its parameters in another order
Reorder(q2) ==
  /\ vres # NoVerdict /\ vres2 = NoVerdict
  /\ q2 \in Reorderings(vq)
  /\ vq2' = q2
  /\ vres2' = Verdict(q2)
  /\ UNCHANGED <<build, secret, serverVars, clientVars, vq, vres>>

\* verifyHmac of vq with another signature parameter, or with none
Resign(sig) ==
  /\ vres # NoVerdict /\ vres2 = NoVerdict
  /\ vq2' = WithSignature(vq, sig)
  /\ vres2' = Verdict(vq2')
  /\ UNCHANGED <<build, secret, serverVars, clientVars, vq, vres>>

VerifyNext ==
  \/ Verify
  \/ \E q2 \in Reorderings(vq) : Reorder(q2)
  \/ \E sig \in Signatures : Resign(sig)

SpecVerify == VerifyInit /\ [][VerifyNext]_vars

\* ------------------------------------------------------------------------
\* Properties of the authorization flow
\* ------------------------------------------------------------------------

\* The step received a request to /auth/callback.
CallbackReceived == last.received /\ last.route = "/auth/callback"

\* The request of the step holds shop, code and state.
Complete ==
  /\ ~Falsy(Get(last.query, "shop"))
  /\ ~Falsy(Get(last.query, "code"))
  /\ ~Falsy(Get(last.query, "state"))

\* Both values are present, non-empty and the same string.
PresentAndEqual(cookieState, state) ==
  /\ cookieState.t = "string" /\ state.t = "string"
  /\ cookieState.items[1] # "" /\ state.items[1] # ""
  /\ cookieState.items[1] = state.items[1]

\* C1: a token-exchange request goes out only in the step that received a
\* request to /auth/callback, to the shop of that request, and only if the
\* cookie of that request equals its state and verifyHmac returned true for
\* its query; a check that fails or throws sends nothing.
C1_ExchangeOnlyAfterBothChecks ==
  last.out.kind = "token" =>
    /\ CallbackReceived
    /\ last.out.host = JsString(Get(last.query, "shop"))
    /\ PresentAndEqual(last.cookie, Get(last.query, "state"))
    /\ verifyHmac(last.query, secret, build) = "true"

C1_Witness ==
  /\ last.out.kind = "token"
  /\ BagCardinality(inflight) = 2

\* C2: every key of TOKENS, and every shop whose credential a resource route
\* sends out, is a shop for which a callback that passed both checks got a
\* success response from the token endpoint.
C2_CredentialOnlyAfterExchange ==
  /\ DOMAIN TOKENS \subseteq exchanged
  /\ last.out.kind = "customers" =>
       /\ last.out.host \in exchanged
       /\ last.out.host \in DOMAIN TOKENS
       /\ last.out.cred = TOKENS[last.out.host]

C2_Witness ==
  /\ last.out.kind = "customers"
  /\ last.route = "/customers.csv"

\* C3: after a callback whose state token passed the state check, the next
\* callback with the same token as cookie and as state is answered 400
\* "Invalid state".
C3_StateTokenSingleUse ==
  [][(/\ CallbackReceived /\ Complete
      /\ PresentAndEqual(last.cookie, Get(last.query, "state"))
      /\ last'.received /\ last'.route = "/auth/callback"
      /\ last'.cookie = last.cookie
      /\ Get(last'.query, "state") = Get(last.query, "state"))
     => (last'.status = 400 /\ last'.body = "Invalid state")]_vars

\* C7: a callback holding shop, code and state passes the state check if and
\* only if its cookie and its state are present, non-empty and equal; a
\* callback without cookie, or with an empty one, is answered 400, as an
\* invalid state when it holds shop, code and state.
C7_StateValidation ==
  CallbackReceived =>
    /\ Complete =>
         (last.body = "Invalid state"
            <=> ~PresentAndEqual(last.cookie, Get(last.query, "state")))
    /\ last.body = "Invalid state" => last.status = 400
    /\ Falsy(last.cookie) =>
         /\ last.status = 400
         /\ last.out = NoOut
         /\ Complete => last.body = "Invalid state"

C7_Witness ==
  /\ CallbackReceived /\ Complete
  /\ last.cookie = Str("")
  /\ last.body = "Invalid state"

\* The shop parameter of the request, trimmed, is a tenant domain.
TenantRequested ==
  LET shop == Get(last.query, "shop")
  IN  shop.t = "string" /\ isValidShop(Trim(shop.items[1]))

\* C8: a request to /auth whose shop is missing or no tenant domain is
\* answered 400, sets no cookie and redirects nowhere.
C8_InvalidTenantRejected ==
  (last.received /\ last.route = "/auth" /\ ~TenantRequested) =>
    /\ last.status = 400
    /\ last.setCookie = Undefined
    /\ last.location = ""

\* The step ended a request to /auth or /auth/callback in a failure.
Failed(req) ==
  /\ req.route \in {"/auth", "/auth/callback"}
  /\ req.body # "pending"
  /\ req.status \notin 200..399

\* C9: a step that ends a request to /auth or /auth/callback in a failure
\* leaves TOKENS as it was.
C9_FailureLeavesMap == [][Failed(last') => TOKENS' = TOKENS]_vars

\* C10: a request whose handler has ended has been answered: no handler ends
\* in a rejection nobody handles.
C10_EveryRequestAnswered ==
  /\ alive
  /\ (last.route # "none" /\ last.body # "pending") => last.status # 0

\* ------------------------------------------------------------------------
\* Properties of verifyHmac
\* ------------------------------------------------------------------------

\* The text holds a character that is no hex digit.
NonHex(s) == \E i \in 1..Len(s) : HexVal(At(s, i)) = -1

\* The hmac parameter of vq is absent, holds a non-hex character, or decodes
\* to another number of bytes than a digest has.
Unusable ==
  LET hmac == Get(vq, "hmac")
  IN  \/ hmac.t = "undefined"
      \/ NonHex(JsString(hmac))
      \/ Len(HexDecode(JsString(hmac))) # DigestBytes

\* C4: with the secret set, verifyHmac returns false, and does not throw, for
\* a query whose hmac is absent, holds a non-hex character or decodes to
\* another length than the digest.
C4_UnusableIsFalse ==
  (vres # NoVerdict /\ secret.t = "string" /\ Unusable) => vres.verdict = "false"

\* C5: with the secret set, verifyHmac returns true for a query whose hmac is
\* the hex digest of its canonical message and false for any other hmac.
C5_TrueOnlyForExactDigest ==
  (vres # NoVerdict /\ secret.t = "string") =>
    /\ vres.verdict \in {"true", "false"}
    /\ vres.verdict = "true" <=> Get(vq, "hmac") = Str(Signed(vq))

\* C6: the message holds neither hmac nor signature, and the verdict and the
\* message are the same for the query reordered or with another signature.
C6_CanonicalMessage ==
  /\ vres # NoVerdict =>
       vres.message = Message(Rest(vq, {"hmac", "signature"}), build)
  /\ vres2 # NoVerdict => vres2 = vres

\* ------------------------------------------------------------------------
\* Properties of the Credential Map
\* ------------------------------------------------------------------------

\* The step ended a callback in its success outcome: the redirect to the
\* dashboard (part_000) or the 200 page (server.js).
Succeeded(req) ==
  /\ req.route = "/auth/callback"
  /\ req.body # "pending"
  /\ req.status \in {200, 302}

\* The step received a resource request for the shop of the step req.
LooksUp(req, shop) ==
  /\ req.received
  /\ req.route \in ResourceRoutes
  /\ req.status # 404
  /\ RouteShop(req.query, build) = shop

\* C11 as amended: a callback that ends in success with a token response
\* holding a non-empty access_token has stored that token under its shop, and
\* a resource request for that shop in the next step is not answered 401 but
\* sends that token out.
C11_StoredOnSuccess ==
  [][
     /\ Succeeded(last') =>
          /\ last'.put
          /\ last'.shop \in DOMAIN TOKENS'
          /\ TOKENS'[last'.shop] = last'.token
     /\ (Succeeded(last) /\ ~Falsy(last.token) /\ LooksUp(last', last.shop)) =>
          /\ last'.status # 401
          /\ last'.out.kind = "customers"
          /\ last'.out.cred = last.token
  ]_vars

C11_Witness ==
  /\ Succeeded(last)
  /\ ~Falsy(last.token)
  /\ MapGet(TOKENS, last.shop) = last.token

\* C11 as stated: after any callback that ends in success, a resource
\* request for its shop in the next step is not answered 401.
C11_LookupFindsCredential ==
  [][(Succeeded(last) /\ LooksUp(last', last.shop)) => last'.status # 401]_vars

\* C12: the put of a successful callback leaves one entry for its shop, holding
\* the token just returned, whatever the entry held before, and leaves the
\* other entries alone; a put of the token the entry already holds changes
\* nothing.
C12_PutOverwrites ==
  [][last'.put =>
       /\ DOMAIN TOKENS' = DOMAIN TOKENS \cup {last'.shop}
       /\ TOKENS'[last'.shop] = last'.token
       /\ \A k \in DOMAIN TOKENS \ {last'.shop} : TOKENS'[k] = TOKENS[k]
       /\ last'.before = MapGet(TOKENS, last'.shop)
       /\ (last'.shop \in DOMAIN TOKENS /\ TOKENS[last'.shop] = last'.token)
            => TOKENS' = TOKENS]_vars

C12_Witness ==
  /\ last.put
  /\ last.before = Str("tok1")
  /\ last.token = Str("tok2")
  /\ TOKENS[last.shop] = Str("tok2")

\* C13: a step of a callback handler changes no entry of TOKENS but, when it
\* is the put, the entry of its own shop, which then holds the token of that
\* put: the entries of other shops stay, and the entry of a shop holds what
\* the latest put for it wrote.
C13_CallbacksDoNotInterfere ==
  [][last'.route = "/auth/callback" =>
       /\ \A k \in DOMAIN TOKENS :
            (last'.put /\ k = last'.shop)
              \/ (k \in DOMAIN TOKENS' /\ TOKENS'[k] = TOKENS[k])
       /\ last'.put =>
            (last'.shop \in DOMAIN TOKENS' /\ TOKENS'[last'.shop] = last'.token)
       /\ ~last'.put => DOMAIN TOKENS' \subseteq DOMAIN TOKENS]_vars

\* ------------------------------------------------------------------------
\* Properties of the resource routes
\* ------------------------------------------------------------------------

\* The step received a request that a resource route handles, with a shop.
ResourceReceived ==
  /\ last.received
  /\ last.route \in ResourceRoutes
  /\ last.status # 404
  /\ RouteShop(last.query, build) # ""

\* C14: a resource request for a shop without stored credential is answered
\* 401 and sends nothing out; a resource request that sends something out
\* sends it to its shop with the credential stored for that shop.
C14_NoCredentialNoRequest ==
  ResourceReceived =>
    LET shop == RouteShop(last.query, build)
    IN  /\ Falsy(MapGet(TOKENS, shop)) => (last.status = 401 /\ last.out = NoOut)
        /\ last.out # NoOut =>
             /\ last.out.kind = "customers"
             /\ last.out.host = shop
             /\ shop \in DOMAIN TOKENS
             /\ last.out.cred = TOKENS[shop]
             /\ ~Falsy(last.out.cred)
        /\ last.status = 401 => Falsy(MapGet(TOKENS, shop))

C14_Witness ==
  /\ ResourceReceived
  /\ last.status = 401
  /\ last.out = NoOut
  /\ TOKENS # EmptyMap

\* C17: a request sends at most one request out, in the step that receives
\* it: a step that resumes a handler, after a response of any status or
\* after a network failure, sends nothing and puts no handler back at its
\* fetch.
C17_NoRetry ==
  [][~last'.received =>
       /\ last'.out = NoOut
       /\ \A r \in BagToSet(inflight') :
            r.pc = "fetch" => CopiesIn(r, inflight') <= CopiesIn(r, inflight)]_vars

C17_Witness ==
  /\ ~last.received
  /\ last.route = "/auth/callback"
  /\ last.status = 500
  /\ last.out = NoOut

\* C15: a step of a request to /, /app, /health, /exitiframe, /auth,
\* /customers or /customers.csv leaves TOKENS as it was, whatever the request
\* holds and however it ends; TOKENS changes only in the put of a callback
\* that ends in success.
C15_OnlyCallbackWrites ==
  [][
     /\ last'.route \in StaticRoutes \cup ResourceRoutes \cup {"/auth"}
          => TOKENS' = TOKENS
     /\ TOKENS' # TOKENS => (last'.put /\ Succeeded(last'))
  ]_vars

\* C16: with SHOPIFY_API_SECRET missing the process keeps serving: it runs
\* on after every step, and every request whose handler has ended has a
\* response.
C16_MissingConfigKeepsServing ==
  secret = Undefined =>
    /\ alive
    /\ (last.route # "none" /\ last.body # "pending") => last.status \in 200..599

\* C18: every key of TOKENS, and the host of every token-exchange request,
\* which carries the client secret, is a shop that isValidShop accepts.
C18_OnlyTenantDomains ==
  /\ \A k \in DOMAIN TOKENS : isValidShop(k)
  /\ last.out.kind = "token" => isValidShop(last.out.host)

\* ------------------------------------------------------------------------
\* Properties of the state cookie of one browser
\* ------------------------------------------------------------------------

\* C19: when the browser has been given two state tokens one after the
\* other, its callback with the first as state is answered 400 "Invalid
\* state" and sends nothing out, and its callback with the second as state
\* passes the state check.
C19_LatestTokenOnly ==
  (CallbackReceived /\ Complete /\ older # Undefined /\ older # jar) =>
    /\ last.cookie = jar
    /\ Get(last.query, "state") = older =>
         (last.status = 400 /\ last.body = "Invalid state" /\ last.out = NoOut)
    /\ Get(last.query, "state") = jar => last.body # "Invalid state"

C19_Witness ==
  /\ CallbackReceived /\ Complete
  /\ older = Str("a1") /\ jar = Str("b2")
  /\ Get(last.query, "state") = older
  /\ last.body = "Invalid state"

\* ------------------------------------------------------------------------
\* Properties of /customers against /customers.csv
\* ------------------------------------------------------------------------

\* A step of a resource route that the build handles.
ResourceStep(req) == req.route \in ResourceRoutes /\ req.status # 404

\* Two steps at the same place of their handlers with the same input: the
\* same query when they receive the request, the same shop, await and
\* upstream status when they resume.
SameInput(a, b) ==
  /\ a.received = b.received
  /\ a.query = b.query
  /\ a.received \/ (a.shop = b.shop /\ a.pc = b.pc /\ a.upstream = b.upstream)

\* A step of one resource route and the next step, of the other resource
\* route over the same map and with the same input, send the same request out
\* and end, or go on, with the same status.
JsonAndCsvAgree ==
  (/\ ResourceStep(last) /\ ResourceStep(last')
   /\ last.route # last'.route
   /\ SameInput(last, last')
   /\ TOKENS' = TOKENS)
  => /\ last'.status = last.status
     /\ last'.out = last.out
     /\ (last'.body = "pending") <=> (last.body = "pending")

\* C20: /customers and /customers.csv agree in what they send out and in
\* their status, and whatever the upstream outcome, a network failure
\* included, each ends with a status: 400, 401, the upstream status or 200.
C20_SameStatus ==
  [][
     /\ JsonAndCsvAgree
     /\ (ResourceStep(last') /\ last'.body # "pending") =>
          last'.status \in {400, 401, 200} \cup UpstreamStatus
  ]_vars

====
